---- MODULE Spec2Model ----
(***************************************************************************)
(* SieveCache (src/src/lib.rs): a fixed-capacity key/value cache with the  *)
(* SIEVE eviction scan.  The HashMap owns the boxed nodes; head, tail,     *)
(* hand and every node's prev/next are raw NonNull pointers into them.     *)
(*                                                                         *)
(* Heap model.  A node lives at an address of NodeIds; nodes[a] is the     *)
(* memory at address a, read and written through raw pointers whether or   *)
(* not a Box still owns it.                                                *)
(*                                                                         *)
(* remove (lines 170-171) and evict (lines 239-241) drop the node's Box    *)
(* and then call remove_node, which reads node.prev and node.next from the *)
(* freed memory.  What those reads return is not defined by the language;  *)
(* it depends on what the build's allocator does with freed memory, which  *)
(* is the variable heap, chosen when the cache is built:                   *)
(*   "kept"     the bytes stay as they were (the reads see the old links)  *)
(*   "zeroed"   the bytes are cleared (the reads see None)                 *)
(*   "poisoned" the bytes are overwritten with a pattern or a free-list    *)
(*              link (the reads see a wild pointer; writing through it     *)
(*              faults)                                                    *)
(*                                                                         *)
(* debug_assert! is modelled as in the test profile: a failed assertion    *)
(* panics.  A panic or a fault stops the cache where it is (aborted).      *)
(***************************************************************************)
EXTENDS Integers, FiniteSets, Sequences, TLC

\* ---------------------------------------------------------------- bounds
MaxKey == 4
MaxVal == 2
MaxCap == 3
\* The number of nodes dropped over the life of one cache.
MaxDrops == 2

Keys == 1..MaxKey
Values == 1..MaxVal
\* Heap addresses available to nodes: the map owns at most one node per key.
NodeIds == 1..MaxKey
\* Option::None, for pointers, for Option<&V> results and for an absent predicate.
None == 0
Ptr == NodeIds \cup {None}
\* A pointer value that is neither None nor the address of any node.
Wild == -1
\* What the allocator of the build does with freed memory.
Heaps == {"kept", "zeroed", "poisoned"}

VARIABLES map, nodes, head, tail, hand, capacity, len, evict_condition,
          heap, aborted, drops, last, plain, order

vars == <<map, nodes, head, tail, hand, capacity, len, evict_condition,
          heap, aborted, drops, last, plain, order>>

\* The part of the state the operations transform, as one record.
Self == [map |-> map, nodes |-> nodes, head |-> head, tail |-> tail,
         hand |-> hand, len |-> len, aborted |-> aborted, drops |-> drops]

\* Freed memory as the model keeps it: cleared.  Under "zeroed" this is what it
\* holds; under "kept" and "poisoned" no pointer to it is followed again, except
\* by the reads of FreedRead.
FreeNode == [live |-> FALSE, key |-> None, value |-> None, visited |-> FALSE,
             prev |-> None, next |-> None]

\* Node::new(key, value)
NewNode(key, value) == [live |-> TRUE, key |-> key, value |-> value,
                        visited |-> FALSE, prev |-> None, next |-> None]

\* The read of a pointer field of the node whose Box was just dropped; stale is
\* what the field held at the drop.
FreedRead(stale) ==
  CASE heap = "kept" -> stale
    [] heap = "zeroed" -> None
    [] heap = "poisoned" -> Wild

\* The caller-supplied fn(&K, &V) -> bool; the family modelled is the tests'
\* evict_string_cond (v.len() < 6) with the limit as the parameter.
EvictDictator(limit, key, value) == value < limit

\* ------------------------------------------------------------ operations

\* A constructor that does not reject capacity 0.
new_unchecked(cap, dictator) ==
  [ok |-> TRUE,
   c |-> [map |-> [k \in Keys |-> None],
          nodes |-> [n \in NodeIds |-> FreeNode],
          head |-> None, tail |-> None, hand |-> None,
          len |-> 0, aborted |-> FALSE, drops |-> 0],
   capacity |-> cap,
   evict_condition |-> dictator]

\* SieveCache::new(capacity), and with_evict_condition(capacity, dictator) when
\* dictator is not None: Err for capacity 0, else the empty cache.
new(cap, dictator) ==
  [ok |-> cap # 0,
   c |-> [map |-> [k \in Keys |-> None],
          nodes |-> [n \in NodeIds |-> FreeNode],
          head |-> None, tail |-> None, hand |-> None,
          len |-> 0, aborted |-> FALSE, drops |-> 0],
   capacity |-> cap,
   evict_condition |-> dictator]

\* contains_key: the map lookup only.
contains_key(c, key) == [c |-> c, ret |-> c.map[key] # None]

\* A get that forgets to mark the entry.
get_unmarked(c, key) ==
  IF c.map[key] = None THEN [c |-> c, ret |-> None]
  ELSE [c |-> c, ret |-> c.nodes[c.map[key]].value]

\* get: look the node up in the map, set visited, return the value.
get(c, key) ==
  IF c.map[key] = None THEN [c |-> c, ret |-> None]
  ELSE [c |-> [c EXCEPT !.nodes[c.map[key]].visited = TRUE],
        ret |-> c.nodes[c.map[key]].value]

\* get_mut: as get, returning the mutable reference.
get_mut(c, key) ==
  IF c.map[key] = None THEN [c |-> c, ret |-> None]
  ELSE [c |-> [c EXCEPT !.nodes[c.map[key]].visited = TRUE],
        ret |-> c.nodes[c.map[key]].value]

\* add_node: link the node at the head.
add_node(c, node) ==
  LET n1 == [c.nodes EXCEPT ![node].next = c.head, ![node].prev = None]
      n2 == IF c.head # None THEN [n1 EXCEPT ![c.head].prev = node] ELSE n1
  IN [c EXCEPT !.nodes = n2,
               !.head = node,
               !.tail = IF c.tail = None THEN node ELSE c.tail]

\* A failed debug_assert!, or a fault on a wild pointer.
Abort(c) == [c EXCEPT !.aborted = TRUE]

\* remove_node(node), where p and n are what its reads of node.prev and
\* node.next return.
remove_node(c, p, n) ==
  IF p = Wild THEN Abort(c)
  ELSE LET c1 == IF p # None THEN [c EXCEPT !.nodes[p].next = n]
                 ELSE [c EXCEPT !.head = n]
       IN IF n = Wild THEN Abort(c1)
          ELSE IF n # None THEN [c1 EXCEPT !.nodes[n].prev = p]
          ELSE [c1 EXCEPT !.tail = p]

\* HashMap::remove(key) and the drop of the Box it returns.
map_remove(c, key) ==
  IF key \notin Keys \/ c.map[key] = None THEN c
  ELSE [c EXCEPT !.map[key] = None, !.nodes[c.map[key]] = FreeNode,
                 !.drops = c.drops + 1]

\* debug_assert!(self.len > 0); self.len -= 1;
dec_len(c) ==
  IF c.aborted THEN c
  ELSE IF c.len > 0 THEN [c EXCEPT !.len = c.len - 1] ELSE Abort(c)

\* The two break conditions of the scan, on the node g the cursor is at.
IsVictim(g) ==
  \/ ~g.visited /\ evict_condition = None
  \/ ~g.visited /\ evict_condition # None
                /\ EvictDictator(evict_condition, g.key, g.value)

\* The while loop of evict from `node` with `visited` nodes examined so far:
\* how it ends, as [kind, c, node]: "fail" (return false), "found" (break at
\* node) or "end" (node is None).
RECURSIVE scan(_, _, _, _)
scan(c, node, visited, length) ==
  IF node = None THEN [kind |-> "end", c |-> c, node |-> None]
  ELSE IF visited >= length THEN [kind |-> "fail", c |-> c, node |-> node]
  ELSE IF IsVictim(c.nodes[node]) THEN [kind |-> "found", c |-> c, node |-> node]
  ELSE scan([c EXCEPT !.nodes[node].visited = FALSE],
            IF c.nodes[node].prev # None THEN c.nodes[node].prev ELSE c.tail,
            visited + 1, length)

\* An evict that leaves the hand where a failed scan stopped.
evict_hand_on_fail(c) ==
  LET r == scan(c, IF c.hand # None THEN c.hand ELSE c.tail, 0, c.len)
      was == r.c.nodes[r.node]
      c1 == map_remove([r.c EXCEPT !.hand = was.prev], was.key)
      c2 == remove_node(c1, FreedRead(was.prev), FreedRead(was.next))
  IN IF r.kind = "fail" THEN [c |-> [r.c EXCEPT !.hand = r.node], ret |-> FALSE]
     ELSE IF r.kind = "end" THEN [c |-> r.c, ret |-> TRUE]
     ELSE [c |-> dec_len(c2), ret |-> TRUE]

\* evict: [c, ret].
evict(c) ==
  LET r == scan(c, IF c.hand # None THEN c.hand ELSE c.tail, 0, c.len)
      was == r.c.nodes[r.node]
      c1 == map_remove([r.c EXCEPT !.hand = was.prev], was.key)
      c2 == remove_node(c1, FreedRead(was.prev), FreedRead(was.next))
  IN IF r.kind = "fail" THEN [c |-> r.c, ret |-> FALSE]
     ELSE IF r.kind = "end" THEN [c |-> r.c, ret |-> TRUE]
     ELSE [c |-> dec_len(c2), ret |-> TRUE]

\* insert after the lookup missed and room was made: the node is boxed at the
\* free address a, linked, indexed and counted.
insert_new(c, key, value, a) ==
  LET c1 == [c EXCEPT !.nodes[a] = NewNode(key, value)]
      c2 == add_node(c1, a)
      c3 == [c2 EXCEPT !.map[key] = a]
  IN [c |-> IF c3.len < capacity THEN [c3 EXCEPT !.len = c3.len + 1] ELSE Abort(c3),
      ret |-> <<TRUE, TRUE>>]

\* An insert that marks an existing entry but keeps its old value.
insert_keeps_value(c, key, value, a) ==
  IF c.map[key] # None
  THEN [c |-> [c EXCEPT !.nodes[c.map[key]].visited = TRUE],
        ret |-> <<FALSE, TRUE>>]
  ELSE IF c.len >= capacity
  THEN LET e == evict(c)
       IN IF ~e.ret \/ e.c.aborted THEN [c |-> e.c, ret |-> <<FALSE, FALSE>>]
          ELSE insert_new(e.c, key, value, a)
  ELSE insert_new(c, key, value, a)

\* insert: [c, ret]; a is the address Box::new returns if it is called.
insert(c, key, value, a) ==
  IF c.map[key] # None
  THEN [c |-> [c EXCEPT !.nodes[c.map[key]].visited = TRUE,
                        !.nodes[c.map[key]].value = value],
        ret |-> <<FALSE, TRUE>>]
  ELSE IF c.len >= capacity
  THEN LET e == evict(c)
       IN IF ~e.ret \/ e.c.aborted THEN [c |-> e.c, ret |-> <<FALSE, FALSE>>]
          ELSE insert_new(e.c, key, value, a)
  ELSE insert_new(c, key, value, a)

\* remove: [c, ret].
remove(c, key) ==
  IF c.map[key] = None THEN [c |-> c, ret |-> None]
  ELSE LET node == c.map[key]
           was == c.nodes[node]
           c1 == IF c.hand = node THEN [c EXCEPT !.hand = was.prev] ELSE c
           c2 == map_remove(c1, key)
           c3 == remove_node(c2, FreedRead(was.prev), FreedRead(was.next))
       IN [c |-> dec_len(c3), ret |-> was.value]

\* ------------------------------------------------- the callers' choices

Low(S) == CHOOSE a \in S : \A b \in S : a <= b

\* Every pointer the cache or a node holds.
Referenced(c) ==
  {c.head, c.tail, c.hand} \cup {c.nodes[a].prev : a \in NodeIds}
                           \cup {c.nodes[a].next : a \in NodeIds}

\* The addresses Box::new can return in c: any free one.  Free addresses that
\* nothing points to cannot be told apart, so one of them stands for all.
FreeAddrs(c) ==
  LET free == {a \in NodeIds : ~c.nodes[a].live}
      fresh == free \ Referenced(c)
  IN (free \cap Referenced(c)) \cup (IF fresh = {} THEN {} ELSE {Low(fresh)})

\* The addresses insert(key, _) can be given: those free when it reaches
\* Box::new (after evict dropped its victim), None when it does not reach it.
InsertAddrs(c, key) ==
  IF c.map[key] # None THEN {None}
  ELSE IF c.len >= capacity
  THEN IF evict(c).ret /\ ~evict(c).c.aborted THEN FreeAddrs(evict(c).c) ELSE {None}
  ELSE FreeAddrs(c)

\* The keys a call is made with: every key that has an entry and one that has
\* none.  Keys are only hashed and compared, and a key without an entry is
\* nowhere in the cache, so one of them stands for all.
InputKeys(c) ==
  LET absent == {k \in Keys : c.map[k] = None}
  IN (Keys \ absent) \cup (IF absent = {} THEN {} ELSE {Low(absent)})

\* ---------------------------------------------------------------- actions

Init ==
  \E cap \in 0..MaxCap, dictator \in {None} \cup (1..MaxVal) :
    LET r == new(cap, dictator)
    IN /\ map = r.c.map
       /\ nodes = r.c.nodes
       /\ head = r.c.head /\ tail = r.c.tail /\ hand = r.c.hand
       /\ len = r.c.len
       /\ capacity = r.capacity
       /\ evict_condition = r.evict_condition
       /\ heap \in Heaps
       /\ aborted = FALSE
       /\ drops = 0
       /\ last = [op |-> IF dictator = None THEN "new" ELSE "with_evict_condition",
                  key |-> None, value |-> cap,
                  ret |-> IF r.ok THEN "Ok" ELSE "Err", rep |-> 0]
       /\ plain = TRUE
       /\ order = <<>>

\* A cache exists and can be called.
Usable == capacity # 0 /\ ~aborted

\* History kept for the properties: plain is TRUE while the calls so far were
\* only inserts of new keys, removes and contains_key; order lists the keys
\* that have an entry, oldest (most recent new) insert first.
History(r, op, key) ==
  LET stays == plain /\ \/ op \in {"remove", "contains_key"}
                        \/ op = "insert" /\ map[key] = None
      Kept(j) == r.c.map[j] # None
      added == IF map[key] = None /\ r.c.map[key] # None THEN <<key>> ELSE <<>>
  IN /\ plain' = stays
     /\ order' = SelectSeq(order, Kept) \o added

\* last.rep tells whether the call before this insert was an insert of the same
\* key: 0 if not, 1 if it was and returned (false, false), 2 if it was and
\* returned anything else.
Rep(op, key) ==
  IF op = "insert" /\ last.op = "insert" /\ last.key = key
  THEN IF last.ret = <<FALSE, FALSE>> THEN 1 ELSE 2
  ELSE 0

Apply(r, op, key, value) ==
  /\ r.c.drops <= MaxDrops
  /\ map' = r.c.map
  /\ nodes' = r.c.nodes
  /\ head' = r.c.head
  /\ tail' = r.c.tail
  /\ hand' = r.c.hand
  /\ len' = r.c.len
  /\ aborted' = r.c.aborted
  /\ drops' = r.c.drops
  /\ last' = [op |-> op, key |-> key, value |-> value, ret |-> r.ret,
              rep |-> Rep(op, key)]
  /\ History(r, op, key)
  /\ UNCHANGED <<capacity, evict_condition, heap>>

ContainsKey ==
  /\ Usable
  /\ \E key \in InputKeys(Self) :
       Apply(contains_key(Self, key), "contains_key", key, None)

Get ==
  /\ Usable
  /\ \E key \in InputKeys(Self) : Apply(get(Self, key), "get", key, None)

GetMut ==
  /\ Usable
  /\ \E key \in InputKeys(Self) : Apply(get_mut(Self, key), "get_mut", key, None)

Insert ==
  /\ Usable
  /\ \E key \in InputKeys(Self), value \in Values :
       \E a \in InsertAddrs(Self, key) :
         Apply(insert(Self, key, value, a), "insert", key, value)

Remove ==
  /\ Usable
  /\ \E key \in InputKeys(Self) : Apply(remove(Self, key), "remove", key, None)

Next == ContainsKey \/ Get \/ GetMut \/ Insert \/ Remove

Spec == Init /\ [][Next]_vars

\* ------------------------------------------------------------ properties

\* The keys that have an entry in the index m.
KeysOf(m) == {k \in Keys : m[k] # None}

\* The call `op` was made in this step and returned.
Returned(op) == last'.op = op /\ ~aborted'

\* The keys of the ordering list, walked from p toward prev (oldest first when
\* p is the tail), at most fuel nodes.
RECURSIVE Walk(_, _, _)
Walk(ns, p, fuel) ==
  IF p = None \/ fuel = 0 THEN <<>>
  ELSE <<ns[p].key>> \o Walk(ns, ns[p].prev, fuel - 1)

ListKeys(ns, tl) == Walk(ns, tl, MaxKey + 1)

\* The sequence s without the key k.
Without(s, k) == LET Other(j) == j # k IN SelectSeq(s, Other)

\* C1: after any sequence of calls on a cache built with capacity >= 1,
\* len() <= capacity() and len() is the number of keys that have an entry.
C1_LenCountsEntries ==
  Usable => len <= capacity /\ len = Cardinality(KeysOf(map))

\* C2: insert returns (false, true) iff the key had an entry (value replaced,
\* nothing evicted); (true, true) iff the key was absent and is present with
\* the given value afterwards (full cache: exactly one earlier entry is gone and
\* len is unchanged; else len grows by one and no entry is removed);
\* (false, false) only when the key was absent and len = capacity, and then the
\* key is absent afterwards.
C2_InsertResults ==
  [][Returned("insert") =>
      LET k == last'.key
          v == last'.value
          r == last'.ret
      IN /\ r \in {<<FALSE, TRUE>>, <<TRUE, TRUE>>, <<FALSE, FALSE>>}
         /\ (r = <<FALSE, TRUE>>) <=> (map[k] # None)
         /\ (r = <<FALSE, TRUE>>) =>
              /\ nodes'[map'[k]].value = v
              /\ KeysOf(map') = KeysOf(map)
              /\ len' = len
         /\ (r = <<TRUE, TRUE>>) <=>
              (map[k] = None /\ map'[k] # None /\ nodes'[map'[k]].value = v)
         /\ (r = <<TRUE, TRUE>>) =>
              IF len = capacity
              THEN Cardinality(KeysOf(map) \ KeysOf(map')) = 1 /\ len' = len
              ELSE len' = len + 1 /\ KeysOf(map) \subseteq KeysOf(map')
         /\ (r = <<FALSE, FALSE>>) =>
              map[k] = None /\ len = capacity /\ map'[k] = None
  ]_vars

\* C3 as stated: an insert(k, v2) made right after an insert(k, v) leaves len
\* unchanged, reports (false, true), and get(k) is v2 afterwards.
C3_SecondInsertUpdates ==
  [][(Returned("insert") /\ last'.rep # 0) =>
      /\ len' = len
      /\ last'.ret = <<FALSE, TRUE>>
      /\ map'[last'.key] # None
      /\ nodes'[map'[last'.key]].value = last'.value
  ]_vars

\* C3 amended: the same, when the first insert did not return (false, false).
C3_SecondInsertUpdatesAfterSuccess ==
  [][(Returned("insert") /\ last'.rep = 2) =>
      /\ len' = len
      /\ last'.ret = <<FALSE, TRUE>>
      /\ map'[last'.key] # None
      /\ nodes'[map'[last'.key]].value = last'.value
  ]_vars

\* C3 witness: an insert made right after a successful insert of the same key
\* has returned (false, true) and the entry holds its value.
C3_Witness ==
  /\ Usable /\ last.op = "insert" /\ last.rep = 2
  /\ last.ret = <<FALSE, TRUE>>
  /\ nodes[map[last.key]].value = last.value
  /\ last.value = MaxVal

\* C4 as stated: an insert that returns (false, false) leaves the whole cache
\* state as it was, visited bits included.
C4_FailedInsertChangesNothing ==
  [][(Returned("insert") /\ last'.ret = <<FALSE, FALSE>>) =>
      UNCHANGED <<map, nodes, head, tail, hand, len>>
  ]_vars

\* C4 amended: an insert that returns (false, false) leaves keys, values, list
\* links, head, tail, hand and len as they were; visited bits may have been
\* cleared by the scan, and none is set.
C4_FailedInsertOnlyClearsVisited ==
  [][(Returned("insert") /\ last'.ret = <<FALSE, FALSE>>) =>
      /\ UNCHANGED <<map, head, tail, hand, len>>
      /\ \A a \in NodeIds :
           /\ nodes'[a] = [nodes[a] EXCEPT !.visited = nodes'[a].visited]
           /\ nodes'[a].visited => nodes[a].visited
  ]_vars

\* C4 witness: an insert has returned (false, false) on a cache with no
\* predicate, where the scan failed because every entry was visited.
C4_Witness ==
  /\ Usable /\ last.op = "insert" /\ last.ret = <<FALSE, FALSE>>
  /\ evict_condition = None
  /\ \A k \in KeysOf(map) : ~nodes[map[k]].visited

\* C5: with a predicate that rejects every entry of a full cache, insert of a
\* new key returns (false, false), len and every entry stay, the key is absent.
C5_AllRejectedInsertFails ==
  [][(/\ Returned("insert")
      /\ evict_condition # None
      /\ map[last'.key] = None
      /\ len = capacity
      /\ \A j \in KeysOf(map) :
           ~EvictDictator(evict_condition, j, nodes[map[j]].value)) =>
      /\ last'.ret = <<FALSE, FALSE>>
      /\ len' = len
      /\ KeysOf(map') = KeysOf(map)
      /\ \A j \in KeysOf(map) : nodes'[map'[j]].value = nodes[map[j]].value
  ]_vars

\* C6: with a predicate, an entry the predicate rejects leaves the cache only
\* by remove; and when some unvisited entry satisfies the predicate, insert of
\* a new key into a full cache succeeds and removes an entry that satisfies it.
C6_PredicateGuardsEviction ==
  [][(evict_condition # None /\ ~aborted') =>
      /\ last'.op # "remove" =>
           \A j \in KeysOf(map) \ KeysOf(map') :
             EvictDictator(evict_condition, j, nodes[map[j]].value)
      /\ (/\ last'.op = "insert"
          /\ map[last'.key] = None
          /\ len = capacity
          /\ \E j \in KeysOf(map) :
               /\ ~nodes[map[j]].visited
               /\ EvictDictator(evict_condition, j, nodes[map[j]].value)) =>
           /\ last'.ret = <<TRUE, TRUE>>
           /\ \E j \in KeysOf(map) \ KeysOf(map') :
                EvictDictator(evict_condition, j, nodes[map[j]].value)
  ]_vars

\* C7: an entry that is visited when an insert starts its eviction scan is
\* still in the cache, with its value, when the insert returns.
C7_VisitedSurvivesScan ==
  [][Returned("insert") =>
      \A j \in KeysOf(map) :
        (nodes[map[j]].visited /\ j # last'.key) =>
          /\ map'[j] # None
          /\ nodes'[map'[j]].value = nodes[map[j]].value
  ]_vars

\* C8: with no predicate, while the calls were only inserts of new keys and
\* removes, an insert evicts nothing but the oldest-inserted entry in the cache.
C8_PlainEvictionIsFifo ==
  [][(Returned("insert") /\ plain' /\ evict_condition = None) =>
      \A j \in KeysOf(map) \ KeysOf(map') : order # <<>> /\ j = Head(order)
  ]_vars

\* C9: remove of a present key returns its value, decrements len, removes the
\* key, leaves room for an insert, and leaves every other entry with its value,
\* visited bit and place in the list order; remove of an absent key returns
\* None and changes nothing.
C9_RemoveEffect ==
  [][Returned("remove") =>
      LET k == last'.key
      IN IF map[k] = None
         THEN /\ last'.ret = None
              /\ UNCHANGED <<map, nodes, head, tail, hand, len>>
         ELSE /\ last'.ret = nodes[map[k]].value
              /\ len' = len - 1
              /\ len' < capacity
              /\ KeysOf(map') = KeysOf(map) \ {k}
              /\ \A j \in KeysOf(map') :
                   /\ nodes'[map'[j]].value = nodes[map[j]].value
                   /\ nodes'[map'[j]].visited = nodes[map[j]].visited
              /\ ListKeys(nodes', tail') = Without(ListKeys(nodes, tail), k)
  ]_vars

\* C10: get and get_mut return the entry's value and change nothing but that
\* entry's visited bit, which they set; on an absent key they return None and
\* change nothing; contains_key changes nothing.
C10_LookupFrame ==
  [][/\ (Returned("get") \/ Returned("get_mut")) =>
          LET k == last'.key
          IN IF map[k] = None
             THEN /\ last'.ret = None
                  /\ UNCHANGED <<map, nodes, head, tail, hand, len>>
             ELSE /\ last'.ret = nodes[map[k]].value
                  /\ nodes' = [nodes EXCEPT ![map[k]].visited = TRUE]
                  /\ UNCHANGED <<map, head, tail, hand, len>>
     /\ Returned("contains_key") =>
          /\ last'.ret = (map[last'.key] # None)
          /\ UNCHANGED <<map, nodes, head, tail, hand, len>>
  ]_vars

\* C10 witness: a get or get_mut of an entry that was inserted and never read
\* has returned its value and the entry is now visited.
C10_Witness ==
  /\ Usable /\ last.op \in {"get", "get_mut"}
  /\ map[last.key] # None
  /\ last.ret = nodes[map[last.key]].value
  /\ nodes[map[last.key]].visited
  /\ \E j \in KeysOf(map) : ~nodes[map[j]].visited

\* C11: new and with_evict_condition return an error for capacity 0, and
\* otherwise an empty cache (len 0, no keys, head, tail and hand absent) whose
\* capacity is the one given; the capacity never changes afterwards.  For a
\* constructor call last.value is the capacity it was given.
C11_ConstructorAndCapacity ==
  /\ IF last.value = 0
     THEN last.ret = "Err"
     ELSE /\ last.ret = "Ok"
          /\ capacity = last.value
          /\ len = 0 /\ KeysOf(map) = {}
          /\ head = None /\ tail = None /\ hand = None
  /\ [][capacity' = capacity]_vars

\* C11 witness: a cache built with the largest capacity has been filled and
\* has evicted, and its capacity is still the one given.
C11_Witness ==
  /\ Usable /\ capacity = MaxCap /\ len = MaxCap /\ drops > 0
  /\ last.op = "insert" /\ last.ret = <<TRUE, TRUE>>

\* The addresses reached from p by following dir ("prev" or "next"), at most
\* fuel of them.
RECURSIVE Chain(_, _, _, _)
Chain(ns, p, dir, fuel) ==
  IF p \notin NodeIds \/ fuel = 0 THEN <<>>
  ELSE <<p>> \o Chain(ns, IF dir = "prev" THEN ns[p].prev ELSE ns[p].next,
                      dir, fuel - 1)

Range(s) == {s[i] : i \in 1..Len(s)}

\* The ordering list as the addresses walked from head via next, and from tail
\* via prev.
FromHead == Chain(nodes, head, "next", MaxKey + 1)
FromTail == Chain(nodes, tail, "prev", MaxKey + 1)

\* The address a holds an entry of the index.
Indexed(a) == a \in NodeIds /\ nodes[a].live /\ map[nodes[a].key] = a

\* C12: hand is absent or references an entry that is in the index and in the
\* ordering list; and when a call removes the entry hand pointed to, hand
\* becomes that entry's former prev.
C12_HandIsLive ==
  /\ [](Usable => \/ hand = None
                  \/ /\ Indexed(hand)
                     /\ hand \in Range(FromHead)
                     /\ hand \in Range(FromTail))
  /\ [][(~aborted' /\ Indexed(hand) /\ map'[nodes[hand].key] = None) =>
          hand' = nodes[hand].prev]_vars

\* C13: the ordering list walked from head via next, and from tail via prev,
\* visits exactly the entries of the index, each once, with prev and next
\* mutually consistent, head.prev absent and tail.next absent.
C13_ListIsIndex ==
  Usable =>
    /\ Range(FromHead) = {map[k] : k \in KeysOf(map)}
    /\ Len(FromHead) = Cardinality(KeysOf(map))
    /\ Len(FromTail) = Len(FromHead)
    /\ \A i \in 1..Len(FromHead) : FromTail[i] = FromHead[Len(FromHead) + 1 - i]
    /\ \A a, b \in Range(FromHead) : (nodes[a].next = b) <=> (nodes[b].prev = a)
    /\ head # None => nodes[head].prev = None
    /\ tail # None => nodes[tail].next = None

\* C14: head is None iff the cache holds no entry, tail is None iff it holds no
\* entry, and head and tail are the same entry iff it holds exactly one.
C14_HeadTailEmptiness ==
  Usable =>
    /\ (head = None) <=> (KeysOf(map) = {})
    /\ (tail = None) <=> (KeysOf(map) = {})
    /\ (head # None /\ head = tail) <=> (Cardinality(KeysOf(map)) = 1)

\* C15: the ordering list from tail to head lists the entries in the order
\* their keys were newly inserted; a new entry is linked at head with visited
\* false; get, get_mut and insert on an existing key change no list link and
\* leave head, tail and hand as they were.
C15_ListIsInsertionOrder ==
  /\ [](Usable => ListKeys(nodes, tail) = order)
  /\ [][(Returned("insert") /\ last'.ret = <<TRUE, TRUE>>) =>
          (head' = map'[last'.key] /\ ~nodes'[head'].visited)]_vars
  /\ [][(\/ Returned("get") \/ Returned("get_mut")
         \/ Returned("insert") /\ last'.ret = <<FALSE, TRUE>>) =>
          (/\ UNCHANGED <<head, tail, hand>>
           /\ \A a \in NodeIds : /\ nodes'[a].prev = nodes[a].prev
                                 /\ nodes'[a].next = nodes[a].next)]_vars

\* The addresses the scan cursor passes: from p, stepping to prev and wrapping
\* from the head to tl, fuel steps.
RECURSIVE Cursor(_, _, _, _)
Cursor(ns, p, tl, fuel) ==
  IF p \notin NodeIds \/ fuel = 0 THEN <<>>
  ELSE <<p>> \o Cursor(ns, IF ns[p].prev # None THEN ns[p].prev ELSE tl,
                       tl, fuel - 1)

\* The order in which a scan started now would meet the entries.
ScanOrder == Cursor(nodes, IF hand # None THEN hand ELSE tail, tail, len)

\* The node at a is unvisited and not blocked by the predicate.
Evictable(a) ==
  /\ ~nodes[a].visited
  /\ \/ evict_condition = None
     \/ EvictDictator(evict_condition, nodes[a].key, nodes[a].value)

\* i is the place in ScanOrder of the first evictable node.
FirstEvictable(i) ==
  /\ i \in 1..Len(ScanOrder)
  /\ Evictable(ScanOrder[i])
  /\ \A j \in 1..(i - 1) : ~Evictable(ScanOrder[j])

\* This step is an insert of a new key into a full cache: it runs the scan.
Scanned == Returned("insert") /\ map[last'.key] = None /\ len >= capacity

\* This step is an insert whose scan succeeded.
Evicted == Scanned /\ last'.ret = <<TRUE, TRUE>>

\* C16: when a scan succeeds, the entry removed is the first one, in the order
\* from hand (or tail) toward prev with wrap to tail, that is unvisited and
\* accepted by the predicate if there is one.
C16_VictimIsFirstEvictable ==
  [][Evicted =>
      \E i \in 1..Len(ScanOrder) :
        /\ FirstEvictable(i)
        /\ KeysOf(map) \ KeysOf(map') = {nodes[ScanOrder[i]].key}
  ]_vars

\* C17: after a successful scan, hand is the victim's former prev, every entry
\* examined before the victim is unvisited, and every entry not examined keeps
\* its visited bit, its value and its place in the list.
C17_ScanEffect ==
  [][Evicted =>
      \E i \in 1..Len(ScanOrder) :
        LET victim == ScanOrder[i]
            passed == {ScanOrder[j] : j \in 1..(i - 1)}
        IN /\ FirstEvictable(i)
           /\ hand' = nodes[victim].prev
           /\ \A a \in passed : Indexed(a) => ~nodes'[a].visited
           /\ \A a \in NodeIds \ (passed \cup {victim}) :
                Indexed(a) => /\ map'[nodes[a].key] = a
                              /\ nodes'[a].visited = nodes[a].visited
                              /\ nodes'[a].value = nodes[a].value
           /\ ListKeys(nodes', tail') =
                Without(ListKeys(nodes, tail), nodes[victim].key)
                  \o <<last'.key>>
  ]_vars

\* The nodes the loop of evict examines, in order, from `node` with `visited`
\* nodes examined so far.
RECURSIVE Examined(_, _, _, _)
Examined(c, node, visited, length) ==
  IF node = None \/ visited >= length THEN <<>>
  ELSE IF IsVictim(c.nodes[node]) THEN <<node>>
  ELSE <<node>> \o
       Examined([c EXCEPT !.nodes[node].visited = FALSE],
                IF c.nodes[node].prev # None THEN c.nodes[node].prev ELSE c.tail,
                visited + 1, length)

\* C18: a scan examines at most len entries, and no entry twice.
C18_ScanExaminesEachOnce ==
  [][Scanned =>
      LET e == Examined(Self, IF hand # None THEN hand ELSE tail, 0, len)
      IN /\ Len(e) <= len
         /\ Cardinality(Range(e)) = Len(e)
  ]_vars

\* C19: insert of a new key into a full cache returns (false, false) iff, when
\* the call starts, every entry is visited or rejected by the predicate.
C19_FailsIffNothingEvictable ==
  [][(Returned("insert") /\ map[last'.key] = None /\ len = capacity) =>
      ((last'.ret = <<FALSE, FALSE>>) <=>
         \A k \in KeysOf(map) : ~Evictable(map[k]))
  ]_vars

\* C20: with no predicate, an insert of a new key made right after an insert
\* of a new key that returned (false, false) returns (true, true).
C20_NoTwoFailuresInARow ==
  [][(/\ evict_condition = None
      /\ last.op = "insert" /\ last.ret = <<FALSE, FALSE>>
      /\ last'.op = "insert" /\ map[last'.key] = None) =>
      (~aborted' /\ last'.ret = <<TRUE, TRUE>>)
  ]_vars

====
